---------------------------- MODULE Spec2Model ----------------------------
(***************************************************************************)
(* A model of cdnfs.py: content-addressed snapshots of a local directory   *)
(* tree in a blob store.  One process run of the program is modelled step  *)
(* by step: __main__'s checks, list_storage, the recursion of              *)
(* upload_snapshot (one step per directory item, one per manifest), and    *)
(* the recursion of list_snapshot / download_snapshot.  The store, the     *)
(* local tree and the download destination persist between runs.           *)
(***************************************************************************)
EXTENDS Integers, Sequences, FiniteSets, TLC

VARIABLES
    cfg,        \* CONFIGURATION and the environment it names (bucket, local path)
    fs,         \* the local tree under local_path: relative path -> node
    store,      \* the bucket: key -> stored object
    listing,    \* Storage.listing (only membership is ever read)
    pc,         \* position of the running process, "idle" when none runs
    argv,       \* sys.argv[1:] of the running (or last) process
    stack,      \* call frames of upload_snapshot / list_snapshot / download_snapshot
    exit,       \* how the last process ended: "none", "ok", "alert", "crash"
    printed,    \* the snapshot identifier the running (or last) process printed
    listed,     \* records printed by list_snapshot in this run
    dl,         \* files under download_path: relative path -> bytes
    dldirs,     \* directories that exist under download_path
    calls,      \* history: store operations called by this process
    fetched,    \* history: the listings list_storage returned in this run, in order
    puts,       \* history: put_file calls of this run
    gets,       \* history: get_file calls of this run
    reads,      \* history: local files read by this run
    wrote,      \* history: files written by this run
    built,      \* history: manifest and identifier built for each directory in this run
    failed,     \* history: the call that raised in this run, "" when none did
    clash,      \* history: an identifier computed in this run named other content in the store
    prev,       \* history: the last completed push
    edited,     \* history: files modified since the last completed push
    aborted,    \* history: pushes of the tree as it is now died; what they had put
    runs, edits, faults     \* counters capped by the bounds

vars == <<cfg, fs, store, listing, pc, argv, stack, exit, printed, listed, dl,
          dldirs, calls, fetched, puts, gets, reads, wrote, built, failed,
          clash, prev, edited, aborted, runs, edits, faults>>

---------------------------------------------------------------------------
(* Bounds of the model *)

MaxRuns == 2
MaxEdits == 1
MaxFaults == 1
RecursionLimit == 4

(* Program constants *)

DigestDigits == 64
MaxHashBits == 256

---------------------------------------------------------------------------
(* Byte strings.  A byte string is raw file content (b), or the JSON text  *)
(* of a manifest (m); z marks the gzip stream of that content.             *)

Raw(b) == [t |-> "raw", b |-> b, m |-> <<>>, z |-> FALSE]

NoBytes == [t |-> "none", b |-> <<>>, m |-> <<>>, z |-> FALSE]

gzip_compress(data) == [data EXCEPT !.z = TRUE]

gzip_decompress(data) == [data EXCEPT !.z = FALSE]

IsGzip(data) == data.z

RECURSIVE SumSeq(_)
SumSeq(s) == IF s = <<>> THEN 0 ELSE Head(s) + SumSeq(Tail(s))

Min(a, b) == IF a < b THEN a ELSE b

Max(a, b) == IF a > b THEN a ELSE b

(* Python's s[0:d] on a string of DigestDigits characters: its length. *)
SliceLen(d) == IF d >= 0 THEN Min(d, DigestDigits) ELSE Max(DigestDigits + d, 0)

(* The first hex digit of the digest: a checksum of the content. *)
FirstDigit(data) == (IF data.t = "raw" THEN SumSeq(data.b) ELSE Len(data.m)) % 16

(* hashlib.sha256(data).hexdigest()[0:digits].  The digest is abstract: its *)
(* first digit is FirstDigit, and the digits after it determine the data.   *)
(* Cut to no digit every content has the identifier "", cut to one digit    *)
(* contents with the same first digit collide, longer cuts do not collide.  *)
HashId(data, digits) ==
    LET n == SliceLen(digits)
    IN  [n |-> n,
         c |-> IF n >= 1 THEN FirstDigit(data) ELSE 0,
         d |-> IF n >= 2 THEN data ELSE NoBytes]

(* Python's truth value of an identifier string *)
Truthy(id) == id.n > 0

(* int(x / 4) for an integer x: true division, then truncation toward zero *)
IntDiv4(x) == IF x >= 0 THEN x \div 4 ELSE 0 - ((0 - x) \div 4)

HashDigits(bits) == IntDiv4(bits + 3)

---------------------------------------------------------------------------
(* Names, extensions and the configured tables *)

NameOrder == <<".DS_Store", "d", "e", "link", "w.txt", "x.txt", "y.bin">>

Names == {NameOrder[i] : i \in 1..Len(NameOrder)}

(* the rank of a name in Python's string order *)
NameRank(name) == CHOOSE i \in 1..Len(NameOrder) : NameOrder[i] = name

(* os.path.splitext(item_path)[1] *)
splitext(name) ==
    CASE name \in {"w.txt", "x.txt"} -> ".txt"
      [] name = "y.bin" -> ".bin"
      [] OTHER -> ""

local_exclusions == {".DS_Store"}

gzip_types == {".txt", ".htm", ".html", ".css", ".csv", ".js", ".json"}

content_types(ext) ==
    CASE ext = ".txt" -> "text/plain; charset=utf-8"
      [] ext = ".bin" -> "application/octet-stream"
      [] OTHER -> "application/octet-stream"

---------------------------------------------------------------------------
(* Manifests *)

Entry(name, hash, size) == [name |-> name, hash |-> hash, size |-> size]

(* the sort key of line 157: (int(size), name) *)
EntryBefore(a, b) ==
    \/ a.size < b.size
    \/ a.size = b.size /\ NameRank(a.name) < NameRank(b.name)

RECURSIVE SortInto(_, _)
SortInto(todo, acc) ==
    IF todo = {} THEN acc
    ELSE LET e == CHOOSE x \in todo : \A y \in todo \ {x} : EntryBefore(x, y)
         IN  SortInto(todo \ {e}, Append(acc, e))

Range(s) == {s[i] : i \in 1..Len(s)}

(* mutant: the items are left in the order they were inserted *)
SortManifest_unsorted(manifest) == manifest

(* sorted(manifest.items(), key=...): the dictionary's items, keys unique *)
SortManifest(manifest) == SortInto(Range(manifest), <<>>)

(* json.dumps({k: v for k, v in manifest}).encode("latin_1"): an object    *)
(* whose members keep the order given *)
json_dumps(manifest) == [t |-> "json", b |-> <<>>, m |-> manifest, z |-> FALSE]

(* json.loads succeeds on the text of a manifest only *)
IsJson(data) == data.t = "json" /\ ~data.z

json_loads(data) == data.m

---------------------------------------------------------------------------
(* The storage service: S3Storage / GCSStorage *)

EmptyStore == [k \in {} |-> NoBytes]

StoredObject(data, content_type, compress) ==
    [body |-> IF compress THEN gzip_compress(data) ELSE data,
     enc |-> IF compress THEN "gzip" ELSE "",
     ctype |-> content_type]

(* mutant: the call returns and nothing is stored *)
put_file_lost(s, hash, data, content_type, compress) == s

(* put_file: the bucket after the object is stored under key hash *)
put_file(s, hash, data, content_type, compress) ==
    (hash :> StoredObject(data, content_type, compress)) @@ s

(* mutant: the listing comes back empty *)
list_storage_none(s) == {}

(* mutant: the listing misses a key of the bucket *)
list_storage_truncated(s) ==
    IF DOMAIN s = {} THEN {} ELSE DOMAIN s \ {CHOOSE k \in DOMAIN s : TRUE}

(* list_storage: the keys of the bucket *)
list_storage(s) == DOMAIN s

(* mutant: the existence test never finds the identifier *)
file_exists_never(l, hash) == FALSE

file_exists(l, hash) == hash \in l

(* get_file raises when the key is absent or the body is not what its *)
(* Content-Encoding says *)
get_ok(s, hash) ==
    /\ hash \in DOMAIN s
    /\ s[hash].enc = "gzip" => IsGzip(s[hash].body)

(* mutant: the body is returned as stored, Content-Encoding ignored *)
get_file_raw(s, hash) == s[hash].body

get_file(s, hash) ==
    IF s[hash].enc = "gzip" THEN gzip_decompress(s[hash].body) ELSE s[hash].body

---------------------------------------------------------------------------
(* The local tree: relative path (a sequence of names) -> node *)

Dir == [kind |-> "dir", data |-> <<>>]

File(b) == [kind |-> "file", data |-> b]

Link == [kind |-> "link", data |-> <<>>]

TreeA ==
    (<<>> :> Dir) @@ (<<"d">> :> Dir) @@ (<<"e">> :> Dir)
    @@ (<<"d", "x.txt">> :> File(<<1, 2>>)) @@ (<<"d", "y.bin">> :> File(<<1>>))
    @@ (<<"e", "x.txt">> :> File(<<1>>))

TreeB ==
    (<<>> :> Dir) @@ (<<".DS_Store">> :> File(<<2>>)) @@ (<<"link">> :> Link)
    @@ (<<"d">> :> Dir) @@ (<<"d", "w.txt">> :> File(<<>>))
    @@ (<<"e">> :> Dir) @@ (<<"e", "d">> :> Dir) @@ (<<"e", "x.txt">> :> File(<<1>>))

TreeC ==
    (<<>> :> Dir) @@ (<<"w.txt">> :> File(<<>>)) @@ (<<"x.txt">> :> File(<<1>>))

Trees == {TreeA, TreeB, TreeC}

EditContents == {<<>>, <<1>>, <<3>>}

(* os.listdir(local_path), as a set: the enumeration order is left open *)
listdir(tree, path) ==
    {n \in Names : Append(path, n) \in DOMAIN tree}

IsPrefix(p, q) == Len(p) <= Len(q) /\ SubSeq(q, 1, Len(p)) = p

Parent(p) == SubSeq(p, 1, Len(p) - 1)

Last(p) == p[Len(p)]

(* the folders a path lies under *)
Prefixes(p) == {SubSeq(p, 1, k) : k \in 0..(Len(p) - 1)}

---------------------------------------------------------------------------
(* CONFIGURATION and what it names *)

Config(service, bucket, conflict, local_path, bits) ==
    [service |-> service, bucket |-> bucket, conflict |-> conflict,
     local_path |-> local_path, bits |-> bits]

Good(service, bits) == Config(service, "ok", FALSE, "ok", bits)

Configs ==
    { Good("S3", 80), Good("GCS", 4), Good("S3", 0),
      Good("S3", 260),
      Config("", "ok", FALSE, "ok", 80),
      Config("S3", "missing", FALSE, "ok", 80),
      Config("GCS", "missing", FALSE, "ok", 80),
      Config("GCS", "ok", TRUE, "ok", 80),
      Config("S3", "ok", FALSE, "", 80),
      Config("S3", "ok", FALSE, "missing", 80) }

manifest_hash_digits == HashDigits(cfg.bits)

Id(data) == HashId(data, manifest_hash_digits)

BogusId == [n |-> 1, c |-> 15, d |-> NoBytes]

(* a bucket that already holds a blob, stored by an earlier use *)
PreStore(c) ==
    put_file(EmptyStore, HashId(Raw(<<1>>), HashDigits(c.bits)), Raw(<<1>>),
             "application/octet-stream", FALSE)

NoPush == [done |-> FALSE, root |-> BogusId, built |-> {}, repeat |-> FALSE,
           clash |-> FALSE]

NoArgv == [cmd |-> "", n |-> 0, id |-> BogusId, dest |-> ""]

NoAbort == [yes |-> FALSE, ids |-> {}, before |-> {}]

(* files that are under download_path before the program is ever run *)
NoDownload == [p \in {} |-> NoBytes]

OldDownload == (<<"e", "x.txt">> :> Raw(<<9>>)) @@ (<<"old.bin">> :> Raw(<<9>>))

Init ==
    /\ cfg \in Configs
    /\ fs \in Trees
    /\ store \in {EmptyStore, PreStore(cfg)}
    /\ listing = {}
    /\ pc = "idle"
    /\ argv = NoArgv
    /\ stack = <<>>
    /\ exit = "none"
    /\ printed = <<>>
    /\ listed = <<>>
    /\ dl \in {NoDownload, OldDownload}
    /\ dldirs = {<<>>} \cup UNION {Prefixes(p) : p \in DOMAIN dl}
    /\ calls = {}
    /\ fetched = <<>>
    /\ failed = ""
    /\ clash = FALSE
    /\ puts = {}
    /\ gets = {}
    /\ reads = {}
    /\ wrote = {}
    /\ built = {}
    /\ prev = NoPush
    /\ edited = {}
    /\ aborted = NoAbort
    /\ runs = 0
    /\ edits = 0
    /\ faults = 0

---------------------------------------------------------------------------
(* __main__: the checks before a command runs (lines 265-310) *)

IdArgs == {BogusId} \cup DOMAIN store \cup (IF prev.done THEN {prev.root} ELSE {})

Argvs ==
    {NoArgv, [NoArgv EXCEPT !.cmd = "push"], [NoArgv EXCEPT !.cmd = "other"],
     [NoArgv EXCEPT !.cmd = "list"], [NoArgv EXCEPT !.cmd = "get"]}
    \cup {[cmd |-> "list", n |-> 1, id |-> i, dest |-> ""] : i \in IdArgs}
    \cup {[cmd |-> "get", n |-> 1, id |-> i, dest |-> ""] : i \in IdArgs}
    \cup {[cmd |-> "get", n |-> 2, id |-> i, dest |-> "out"] : i \in IdArgs}

(* S3Storage.__init__ / GCSStorage.__init__ / no service: sys.exit *)
ServiceExits(c) ==
    \/ c.service = ""
    \/ c.service = "S3" /\ c.bucket = "missing"
    \/ c.service = "GCS" /\ c.conflict

(* the command's own checks: sys.exit *)
CommandExits(c, a) ==
    \/ a.cmd = "push" /\ c.local_path = ""
    \/ a.cmd = "push" /\ c.local_path = "missing"
    \/ a.cmd = "push" /\ c.bits > MaxHashBits
    \/ a.cmd = "list" /\ a.n < 1
    \/ a.cmd = "get" /\ a.n < 2

MainExits(c, a) == a.cmd = "" \/ ServiceExits(c) \/ CommandExits(c, a)

(* self.bucket of the service object: None when lookup_bucket finds none *)
BucketIsNone == cfg.service = "GCS" /\ cfg.bucket = "missing"

Main ==
    /\ pc = "idle"
    /\ runs < MaxRuns
    /\ \E a \in Argvs :
        /\ argv' = a
        /\ IF MainExits(cfg, a)
           THEN pc' = "idle" /\ exit' = "alert"
           ELSE IF a.cmd = "other"
           THEN pc' = "idle" /\ exit' = "ok"
           ELSE pc' = a.cmd /\ exit' = "none"
    /\ runs' = runs + 1
    /\ stack' = <<>>
    /\ printed' = <<>>
    /\ listed' = <<>>
    /\ listing' = {}
    /\ calls' = {}
    /\ fetched' = <<>>
    /\ failed' = ""
    /\ clash' = FALSE
    /\ puts' = {}
    /\ gets' = {}
    /\ reads' = {}
    /\ wrote' = {}
    /\ built' = {}
    /\ aborted' = IF argv.cmd = "push" /\ exit = "ok" THEN NoAbort ELSE aborted
    /\ UNCHANGED <<cfg, fs, store, dl, dldirs, prev, edited, edits, faults>>

(* mutant: the exception is caught and the run goes on *)
Crash_swallowed(call) ==
    /\ failed' = call
    /\ UNCHANGED <<pc, exit, stack, aborted>>

(* the process dies on an uncaught exception *)
Crash(call) ==
    /\ pc' = "idle"
    /\ exit' = "crash"
    /\ stack' = <<>>
    /\ failed' = call
    /\ aborted' = IF pc = "upload"
                  THEN [yes |-> TRUE,
                        ids |-> aborted.ids \cup {c.id : c \in {x \in puts : ~x.failed}},
                        before |-> IF aborted.yes THEN aborted.before ELSE fetched[1]]
                  ELSE aborted

---------------------------------------------------------------------------
(* push: list_storage, then upload_snapshot (lines 293-300, 124-167) *)

UploadFrame(path) == [path |-> path, todo |-> listdir(fs, path), manifest |-> <<>>]

Top == stack[Len(stack)]

SetTop(f) == [stack EXCEPT ![Len(stack)] = f]

PutCall(id, path, kind, raised) ==
    [id |-> id, path |-> path, kind |-> kind, failed |-> raised]

(* the identifier is a key of the bucket that holds other content *)
Clashes(hash, data) ==
    hash \in DOMAIN store /\ (~get_ok(store, hash) \/ get_file(store, hash) # data)

(* mutant: the fetched listing is not kept in self.listing *)
PushListStorage_dropped ==
    /\ pc = "push"
    /\ stack = <<>>
    /\ ~BucketIsNone
    /\ calls' = calls \cup {"list_storage"}
    /\ fetched' = Append(fetched, list_storage(store))
    /\ stack' = <<UploadFrame(<<>>)>>
    /\ pc' = "upload"
    /\ UNCHANGED <<cfg, fs, store, listing, argv, exit, printed, listed, dl, dldirs,
                   puts, gets, reads, wrote, built, failed, clash, prev, aborted, edited,
                   runs, edits, faults>>

(* lines 295 and 299: fetch the listing, call upload_snapshot on the root *)
PushListStorage ==
    /\ pc = "push"
    /\ stack = <<>>
    /\ calls' = calls \cup {"list_storage"}
    /\ IF BucketIsNone
       THEN /\ Crash("list_storage")
            /\ UNCHANGED <<listing, fetched>>
       ELSE /\ listing' = list_storage(store)
            /\ fetched' = Append(fetched, list_storage(store))
            /\ stack' = <<UploadFrame(<<>>)>>
            /\ pc' = "upload"
            /\ UNCHANGED <<exit, failed, aborted>>
    /\ UNCHANGED <<cfg, fs, store, argv, printed, listed, dl, dldirs, puts, gets,
                   reads, wrote, built, clash, prev, edited, runs, edits, faults>>

(* lines 129-132: an item that is a directory: recurse *)
UploadSubfolder ==
    /\ pc = "upload"
    /\ \E item \in Top.todo :
        /\ fs[Append(Top.path, item)].kind = "dir"
        /\ stack' = Append(SetTop([Top EXCEPT !.todo = @ \ {item}]),
                           UploadFrame(Append(Top.path, item)))
    /\ UNCHANGED <<cfg, fs, store, listing, pc, argv, exit, printed, listed, dl,
                   dldirs, calls, fetched, puts, gets, reads, wrote, built, failed,
                   clash, prev, aborted, edited, runs, edits, faults>>

(* mutant: the exclusion list is not consulted *)
IsUploaded_unfiltered(item, node) == Len(node.data) > 0

(* whether lines 137-139 let the file through to be read *)
IsUploaded(item, node) == item \notin local_exclusions /\ Len(node.data) > 0

(* lines 136-151: an item that is a regular file *)
UploadFile ==
    /\ pc = "upload"
    /\ \E item \in Top.todo :
        LET item_path == Append(Top.path, item)
            node == fs[item_path]
            file_data == Raw(node.data)
            file_size == Len(node.data)
            file_hash == Id(file_data)
            ext == splitext(item)
        IN  /\ node.kind = "file"
            /\ IF IsUploaded(item, node)
               THEN /\ reads' = reads \cup {item_path}
                    /\ clash' = (clash \/ Clashes(file_hash, file_data))
                    /\ IF ~file_exists(listing, file_hash)
                       THEN /\ store' = put_file(store, file_hash, file_data,
                                                 content_types(ext), ext \in gzip_types)
                            /\ listing' = listing \cup {file_hash}
                            /\ puts' = puts \cup {PutCall(file_hash, item_path, "file", FALSE)}
                            /\ calls' = calls \cup {"put_file"}
                       ELSE UNCHANGED <<store, listing, puts, calls>>
                    /\ stack' = SetTop([Top EXCEPT
                                   !.todo = @ \ {item},
                                   !.manifest = Append(@, Entry(item, file_hash, file_size))])
               ELSE /\ stack' = SetTop([Top EXCEPT !.todo = @ \ {item}])
                    /\ UNCHANGED <<store, listing, puts, calls, reads, clash>>
    /\ UNCHANGED <<cfg, fs, pc, argv, exit, printed, listed, dl, dldirs, fetched,
                   gets, wrote, built, failed, prev, aborted, edited, runs, edits, faults>>

(* lines 152-153: neither a directory nor a regular file *)
UploadSkipLink ==
    /\ pc = "upload"
    /\ \E item \in Top.todo :
        /\ fs[Append(Top.path, item)].kind = "link"
        /\ stack' = SetTop([Top EXCEPT !.todo = @ \ {item}])
    /\ UNCHANGED <<cfg, fs, store, listing, pc, argv, exit, printed, listed, dl,
                   dldirs, calls, fetched, puts, gets, reads, wrote, built, failed,
                   clash, prev, aborted, edited, runs, edits, faults>>

(* lines 157-158: the manifest's JSON text *)
ManifestJson(manifest) == json_dumps(SortManifest(manifest))

(* mutant: a subfolder is recorded with the length of its identifier *)
RecordSubfolder_sized(manifest, item, folder_hash) ==
    IF Truthy(folder_hash) THEN Append(manifest, Entry(item, folder_hash, folder_hash.n))
    ELSE manifest

(* lines 133-134: what the caller records for a subfolder *)
RecordSubfolder(manifest, item, folder_hash) ==
    IF Truthy(folder_hash) THEN Append(manifest, Entry(item, folder_hash, 0))
    ELSE manifest

Built(path, json, id) == [path |-> path, json |-> json, id |-> id]

(* lines 155-167, and the return to the caller (lines 132-134, 299-300) *)
UploadManifest ==
    /\ pc = "upload"
    /\ Top.todo = {}
    /\ LET manifest_json == ManifestJson(Top.manifest)
           manifest_hash == Id(manifest_json)
       IN  /\ IF ~file_exists(listing, manifest_hash)
              THEN /\ store' = put_file(store, manifest_hash, manifest_json,
                                        "application/json; charset=utf-8", TRUE)
                   /\ puts' = puts \cup {PutCall(manifest_hash, Top.path, "manifest", FALSE)}
                   /\ calls' = calls \cup {"put_file"}
              ELSE UNCHANGED <<store, puts, calls>>
           /\ built' = built \cup {Built(Top.path, manifest_json, manifest_hash)}
           /\ clash' = (clash \/ Clashes(manifest_hash, manifest_json))
           /\ IF Len(stack) = 1
              THEN /\ printed' = <<manifest_hash>>
                   /\ pc' = "idle"
                   /\ exit' = "ok"
                   /\ stack' = <<>>
                   /\ prev' = [done |-> TRUE, root |-> manifest_hash, built |-> built',
                               repeat |-> prev.done /\ edited = {}, clash |-> clash']
                   /\ edited' = {}
                   /\ aborted' = aborted
              ELSE /\ LET caller == stack[Len(stack) - 1]
                      IN  stack' = [SubSeq(stack, 1, Len(stack) - 1) EXCEPT
                               ![Len(stack) - 1] = [caller EXCEPT !.manifest =
                                   RecordSubfolder(@, Last(Top.path), manifest_hash)]]
                   /\ UNCHANGED <<printed, pc, exit, prev, aborted, edited>>
    /\ UNCHANGED <<cfg, fs, listing, argv, listed, dl, dldirs, fetched, gets,
                   reads, wrote, failed, runs, edits, faults>>

---------------------------------------------------------------------------
(* Failures during a push: an exception nobody catches ends the process *)

(* os.listdir raises in the recursive call for a subfolder (line 127) *)
ListdirFails ==
    /\ pc = "upload"
    /\ faults < MaxFaults
    /\ \E item \in Top.todo : fs[Append(Top.path, item)].kind = "dir"
    /\ Crash("listdir")
    /\ faults' = faults + 1
    /\ UNCHANGED <<cfg, fs, store, listing, argv, printed, listed, dl, dldirs,
                   calls, fetched, puts, gets, reads, wrote, built, clash, prev,
                   edited, runs, edits>>

(* getsize, open or read raises for a file that is to be uploaded (138-142) *)
ReadFails ==
    /\ pc = "upload"
    /\ faults < MaxFaults
    /\ \E item \in Top.todo :
        /\ fs[Append(Top.path, item)].kind = "file"
        /\ IsUploaded(item, fs[Append(Top.path, item)])
    /\ Crash("read")
    /\ faults' = faults + 1
    /\ UNCHANGED <<cfg, fs, store, listing, argv, printed, listed, dl, dldirs,
                   calls, fetched, puts, gets, reads, wrote, built, clash, prev,
                   edited, runs, edits>>

(* put_file raises for a file (line 149); the object may have been stored *)
PutFileFails ==
    /\ pc = "upload"
    /\ faults < MaxFaults
    /\ \E item \in Top.todo, landed \in BOOLEAN :
        LET item_path == Append(Top.path, item)
            node == fs[item_path]
            file_data == Raw(node.data)
            file_hash == Id(file_data)
            ext == splitext(item)
        IN  /\ node.kind = "file"
            /\ IsUploaded(item, node)
            /\ ~file_exists(listing, file_hash)
            /\ reads' = reads \cup {item_path}
            /\ puts' = puts \cup {PutCall(file_hash, item_path, "file", TRUE)}
            /\ store' = IF landed
                        THEN put_file(store, file_hash, file_data,
                                      content_types(ext), ext \in gzip_types)
                        ELSE store
    /\ calls' = calls \cup {"put_file"}
    /\ Crash("put_file")
    /\ faults' = faults + 1
    /\ UNCHANGED <<cfg, fs, listing, argv, printed, listed, dl, dldirs, fetched,
                   gets, wrote, built, clash, prev, edited, runs, edits>>

(* put_file raises for a manifest (line 166); the object may have been stored *)
PutManifestFails ==
    /\ pc = "upload"
    /\ faults < MaxFaults
    /\ Top.todo = {}
    /\ \E landed \in BOOLEAN :
        LET manifest_json == ManifestJson(Top.manifest)
            manifest_hash == Id(manifest_json)
        IN  /\ ~file_exists(listing, manifest_hash)
            /\ puts' = puts \cup {PutCall(manifest_hash, Top.path, "manifest", TRUE)}
            /\ store' = IF landed
                        THEN put_file(store, manifest_hash, manifest_json,
                                      "application/json; charset=utf-8", TRUE)
                        ELSE store
    /\ calls' = calls \cup {"put_file"}
    /\ Crash("put_file")
    /\ faults' = faults + 1
    /\ UNCHANGED <<cfg, fs, listing, argv, printed, listed, dl, dldirs, fetched,
                   gets, reads, wrote, built, clash, prev, edited, runs, edits>>

---------------------------------------------------------------------------
(* list and get: list_snapshot / download_snapshot (lines 169-192) *)

ReadFrame(path, entries) == [path |-> path, entries |-> entries, i |-> 1]

GetCall(id, path) == [id |-> id, path |-> path]

(* line 170 / 179: json.loads(service.get_file(identifier)) returns *)
ManifestLoads(id) ==
    /\ ~BucketIsNone
    /\ get_ok(store, id)
    /\ IsJson(get_file(store, id))
    /\ Len(stack) < RecursionLimit

(* lines 305 / 310: the call on the snapshot identifier given *)
ReadRoot ==
    /\ pc \in {"list", "get"}
    /\ calls' = calls \cup {"get_file"}
    /\ gets' = gets \cup {GetCall(argv.id, <<>>)}
    /\ IF ManifestLoads(argv.id)
       THEN /\ stack' = <<ReadFrame(<<>>, json_loads(get_file(store, argv.id)))>>
            /\ pc' = IF pc = "list" THEN "list_walk" ELSE "get_walk"
            /\ UNCHANGED <<exit, failed, aborted>>
       ELSE Crash("get_file")
    /\ UNCHANGED <<cfg, fs, store, listing, argv, printed, listed, dl, dldirs,
                   fetched, puts, reads, wrote, built, clash, prev, edited, runs,
                   edits, faults>>

(* the entry the loop of the top frame is at *)
Cur == Top.entries[Top.i]

HasCur == Top.i <= Len(Top.entries)

(* mutant: the path of the parent is dropped *)
ItemPath_nameonly == <<Cur.name>>

(* line 172 / 181: parent_path + "/" + key, or key under the root *)
ItemPath == Append(Top.path, Cur.name)

(* mutant: the loop stays at the entry it is at *)
Advance_stays == SetTop([Top EXCEPT !.i = @])

(* the loop of the top frame moves to its next entry *)
Advance == SetTop([Top EXCEPT !.i = @ + 1])

(* mutant: a subfolder whose manifest cannot be loaded is skipped *)
ReadSubfolder_skips ==
    /\ pc \in {"list_walk", "get_walk"}
    /\ HasCur
    /\ Cur.size = 0
    /\ calls' = calls \cup {"get_file"}
    /\ gets' = gets \cup {GetCall(Cur.hash, ItemPath)}
    /\ IF ManifestLoads(Cur.hash)
       THEN /\ stack' = Append(Advance,
                               ReadFrame(ItemPath, json_loads(get_file(store, Cur.hash))))
            /\ UNCHANGED failed
       ELSE /\ stack' = Advance
            /\ failed' = "get_file"
    /\ UNCHANGED <<cfg, fs, store, listing, pc, argv, exit, printed, listed, dl,
                   dldirs, fetched, puts, reads, wrote, built, clash, prev, aborted, edited,
                   runs, edits, faults>>

(* lines 173-174 / 182-183: an entry of size 0: recurse *)
ReadSubfolder ==
    /\ pc \in {"list_walk", "get_walk"}
    /\ HasCur
    /\ Cur.size = 0
    /\ calls' = calls \cup {"get_file"}
    /\ gets' = gets \cup {GetCall(Cur.hash, ItemPath)}
    /\ IF ManifestLoads(Cur.hash)
       THEN /\ stack' = Append(Advance,
                               ReadFrame(ItemPath, json_loads(get_file(store, Cur.hash))))
            /\ UNCHANGED <<pc, exit, failed, aborted>>
       ELSE Crash("get_file")
    /\ UNCHANGED <<cfg, fs, store, listing, argv, printed, listed, dl, dldirs,
                   fetched, puts, reads, wrote, built, clash, prev, edited, runs,
                   edits, faults>>

(* mutant: list also creates the file it prints *)
ListFile_writes ==
    /\ pc = "list_walk"
    /\ HasCur
    /\ Cur.size # 0
    /\ listed' = Append(listed, [hash |-> Cur.hash, size |-> Cur.size, path |-> ItemPath])
    /\ dl' = (ItemPath :> NoBytes) @@ dl
    /\ stack' = Advance
    /\ UNCHANGED <<cfg, fs, store, listing, pc, argv, exit, printed, dldirs,
                   calls, fetched, puts, gets, reads, wrote, built, failed, clash,
                   prev, aborted, edited, runs, edits, faults>>

(* lines 175-176: list prints the record of a file entry *)
ListFile ==
    /\ pc = "list_walk"
    /\ HasCur
    /\ Cur.size # 0
    /\ listed' = Append(listed, [hash |-> Cur.hash, size |-> Cur.size, path |-> ItemPath])
    /\ stack' = Advance
    /\ UNCHANGED <<cfg, fs, store, listing, pc, argv, exit, printed, dl, dldirs,
                   calls, fetched, puts, gets, reads, wrote, built, failed, clash,
                   prev, aborted, edited, runs, edits, faults>>

(* makedirs and open can succeed: no file where a folder is needed, no *)
(* folder where the file goes *)
CanWrite(p) == p \notin dldirs /\ Prefixes(p) \cap DOMAIN dl = {}

(* mutant: a file that exists under download_path is left as it is *)
DownloadFile_keeps ==
    /\ pc = "get_walk"
    /\ HasCur
    /\ Cur.size # 0
    /\ calls' = calls \cup {"get_file"}
    /\ gets' = gets \cup {GetCall(Cur.hash, ItemPath)}
    /\ IF ~BucketIsNone /\ get_ok(store, Cur.hash) /\ CanWrite(ItemPath)
       THEN /\ dl' = dl @@ (ItemPath :> get_file(store, Cur.hash))
            /\ dldirs' = dldirs \cup Prefixes(ItemPath)
            /\ wrote' = wrote \cup {ItemPath}
            /\ stack' = Advance
            /\ UNCHANGED <<pc, exit, failed, aborted>>
       ELSE /\ Crash(IF CanWrite(ItemPath) THEN "get_file" ELSE "open")
            /\ UNCHANGED <<dl, dldirs, wrote>>
    /\ UNCHANGED <<cfg, fs, store, listing, argv, printed, listed, fetched, puts,
                   reads, built, clash, prev, edited, runs, edits, faults>>

(* lines 185-192: get fetches the blob of a file entry and writes it *)
DownloadFile ==
    /\ pc = "get_walk"
    /\ HasCur
    /\ Cur.size # 0
    /\ calls' = calls \cup {"get_file"}
    /\ gets' = gets \cup {GetCall(Cur.hash, ItemPath)}
    /\ IF ~BucketIsNone /\ get_ok(store, Cur.hash) /\ CanWrite(ItemPath)
       THEN /\ dl' = (ItemPath :> get_file(store, Cur.hash)) @@ dl
            /\ dldirs' = dldirs \cup Prefixes(ItemPath)
            /\ wrote' = wrote \cup {ItemPath}
            /\ stack' = Advance
            /\ UNCHANGED <<pc, exit, failed, aborted>>
       ELSE /\ Crash(IF CanWrite(ItemPath) THEN "get_file" ELSE "open")
            /\ UNCHANGED <<dl, dldirs, wrote>>
    /\ UNCHANGED <<cfg, fs, store, listing, argv, printed, listed, fetched, puts,
                   reads, built, clash, prev, edited, runs, edits, faults>>

(* the loop of the top frame is over: return to the caller, or to __main__ *)
ReadReturn ==
    /\ pc \in {"list_walk", "get_walk"}
    /\ ~HasCur
    /\ stack' = SubSeq(stack, 1, Len(stack) - 1)
    /\ IF Len(stack) = 1
       THEN pc' = "idle" /\ exit' = "ok"
       ELSE UNCHANGED <<pc, exit>>
    /\ UNCHANGED <<cfg, fs, store, listing, argv, printed, listed, dl, dldirs,
                   calls, fetched, puts, gets, reads, wrote, built, failed, clash,
                   prev, aborted, edited, runs, edits, faults>>

(* get_file raises although the object is there (the store is unreachable) *)
GetFails ==
    /\ faults < MaxFaults
    /\ \/ pc \in {"list", "get"} /\ gets' = gets \cup {GetCall(argv.id, <<>>)}
       \/ /\ pc \in {"list_walk", "get_walk"}
          /\ HasCur
          /\ pc = "list_walk" => Cur.size = 0
          /\ gets' = gets \cup {GetCall(Cur.hash, ItemPath)}
    /\ calls' = calls \cup {"get_file"}
    /\ Crash("get_file")
    /\ faults' = faults + 1
    /\ UNCHANGED <<cfg, fs, store, listing, argv, printed, listed, dl, dldirs,
                   fetched, puts, reads, wrote, built, clash, prev, edited, runs,
                   edits>>

---------------------------------------------------------------------------
(* The user changes the content of one file of the local tree after a push *)
(* has completed and before the next run                                    *)

Edit ==
    /\ pc = "idle"
    /\ edits < MaxEdits
    /\ runs < MaxRuns
    /\ prev.done
    /\ \E p \in DOMAIN fs, b \in EditContents :
        /\ fs[p].kind = "file"
        /\ fs[p].data # b
        /\ fs' = [fs EXCEPT ![p] = File(b)]
        /\ edited' = edited \cup {p}
    /\ aborted' = NoAbort
    /\ edits' = edits + 1
    /\ UNCHANGED <<cfg, store, listing, pc, argv, stack, exit, printed, listed, dl,
                   dldirs, calls, fetched, puts, gets, reads, wrote, built, failed,
                   clash, prev, runs, faults>>

Next ==
    \/ Main
    \/ PushListStorage
    \/ UploadSubfolder
    \/ UploadFile
    \/ UploadSkipLink
    \/ UploadManifest
    \/ ListdirFails
    \/ ReadFails
    \/ PutFileFails
    \/ PutManifestFails
    \/ ReadRoot
    \/ ReadSubfolder
    \/ ListFile
    \/ DownloadFile
    \/ ReadReturn
    \/ GetFails
    \/ Edit

Spec == Init /\ [][Next]_vars

---------------------------------------------------------------------------
(* Properties *)

(* a push is running, the last completed push was of the tree as it is now *)
RepeatPush == pc = "upload" /\ prev.done /\ edited = {}

(* C1: a push of a tree that has not changed since the last completed push *)
(* makes no put_file call and returns the root identifier of that push.    *)
C1_RepeatPushSameRootNoPut ==
    [][RepeatPush => (puts' = {} /\ (exit' = "ok" => printed' = <<prev.root>>))]_vars

C1_Witness ==
    /\ pc = "idle" /\ argv.cmd = "push" /\ exit = "ok"
    /\ prev.repeat
    /\ printed = <<prev.root>>
    /\ puts = {}
    /\ Cardinality(DOMAIN store) >= 4

(* the regular files a build records: not excluded by name, not empty *)
RecordedFiles ==
    {p \in DOMAIN fs : /\ fs[p].kind = "file"
                       /\ Last(p) \notin local_exclusions
                       /\ Len(fs[p].data) > 0}

(* a get of the identifier the last completed push returned has ended, the *)
(* tree being as it was at that push *)
GotLastPush ==
    /\ pc = "idle" /\ argv.cmd = "get" /\ argv.n = 2
    /\ prev.done /\ argv.id = prev.root /\ edited = {}

(* C2, as claimed: the download holds the paths of T, files and folders,   *)
(* and the bytes of every file.  Stated for the hash length the program    *)
(* ships with (80 bits), where no two contents share an identifier, and   *)
(* for a download folder that was empty before.                            *)
C2_Original ==
    (GotLastPush /\ exit = "ok" /\ cfg.bits = 80 /\ DOMAIN dl \subseteq wrote) =>
        /\ DOMAIN dl = {p \in DOMAIN fs : fs[p].kind # "dir"}
        /\ dldirs = {p \in DOMAIN fs : fs[p].kind = "dir"}
        /\ \A p \in DOMAIN dl : dl[p] = Raw(fs[p].data)

(* C2, amended: when no identifier of the build named other content in the *)
(* store, the download ends without error unless the store fails, and it   *)
(* writes exactly the recorded files (regular, not excluded, not empty),   *)
(* each at its relative path with the bytes of the file, under folders it  *)
(* creates as needed, whether the blob was stored compressed or not.       *)
C2_DownloadWritesRecordedFiles ==
    (GotLastPush /\ ~prev.clash) =>
        /\ faults = 0 => exit = "ok"
        /\ exit = "ok" =>
            /\ wrote = RecordedFiles
            /\ \A p \in wrote : p \in DOMAIN dl /\ dl[p] = Raw(fs[p].data)
            /\ \A p \in wrote : Prefixes(p) \subseteq dldirs

C2_Witness ==
    /\ GotLastPush /\ ~prev.clash /\ exit = "ok"
    /\ \E p, q \in wrote : store[Id(dl[p])].enc = "gzip" /\ store[Id(dl[q])].enc = ""
    /\ \E p \in wrote : Len(p) = 2

(* a push is running, one file was modified since the last completed push *)
PushAfterOneEdit == pc = "upload" /\ prev.done /\ Cardinality(edited) = 1

(* C3: in a push after exactly one file was modified, every put_file call  *)
(* is for that file's blob or for the manifest of one of its ancestor      *)
(* directories.                                                            *)
C3_OnlyEditedFileAndAncestorsPut ==
    [][PushAfterOneEdit =>
        \A c \in puts' : \A p \in edited :
            \/ c.kind = "file" /\ c.path = p /\ c.id = Id(Raw(fs[p].data))
            \/ c.kind = "manifest" /\ c.path \in Prefixes(p)]_vars

C3_Witness ==
    /\ pc = "idle" /\ argv.cmd = "push" /\ exit = "ok"
    /\ ~prev.repeat
    /\ \E c \in puts : c.kind = "file"
    /\ \E c \in puts : c.kind = "manifest" /\ c.path = <<>>
    /\ \E c \in puts : c.kind = "manifest" /\ c.path # <<>>
    /\ \E b \in built : \A c \in puts : ~IsPrefix(b.path, c.path)
    /\ \E b \in built : b.path # <<>> /\ b \in prev.built /\ b.id \in fetched[1]

(* the process is in, or has ended, a push *)
InPush == argv.cmd = "push" /\ (pc = "upload" \/ pc = "idle")

(* C4: in a push the listing is fetched once, before any file is read or   *)
(* any put_file call, and no put_file call is for an identifier of the     *)
(* fetched listing.                                                        *)
C4_ListedOnceNeverPutListed ==
    /\ pc = "upload" => Len(fetched) = 1
    /\ InPush =>
        /\ Len(fetched) <= 1
        /\ (reads # {} \/ puts # {}) => Len(fetched) = 1
        /\ \A c \in puts : c.id \notin fetched[1]

C4_Witness ==
    /\ InPush /\ exit = "ok"
    /\ puts # {}
    /\ \E p \in reads : Id(Raw(fs[p].data)) \in fetched[1]
    /\ \E b \in built : b.id \in fetched[1]

(* C5: a directory gets the same identifier in a push of an unchanged tree *)
(* as in the push before, whatever the order in which the items of the two *)
(* pushes were enumerated.                                                 *)
C5_IdentifierIndependentOfOrder ==
    [][RepeatPush =>
        \A b \in built' : \A q \in prev.built : b.path = q.path => b.id = q.id]_vars

C5_Witness ==
    /\ pc = "idle" /\ argv.cmd = "push" /\ exit = "ok" /\ prev.repeat
    /\ \E b \in built : Len(b.json.m) >= 2 /\ b.json.m[1].size # 0
    /\ \E b \in built : Len(b.json.m) >= 2 /\ b.json.m[1].size = 0
    /\ manifest_hash_digits >= 2


(* a regular file the build is to leave out: excluded by name, or empty *)
Skipped(p) ==
    fs[p].kind = "file" /\ (Last(p) \in local_exclusions \/ Len(fs[p].data) = 0)

(* the manifests of this push: those built, and those being filled *)
ManifestsOfPush ==
    {<<b.path, b.json.m>> : b \in built}
    \cup {<<stack[i].path, stack[i].manifest>> : i \in 1..Len(stack)}

NoSkippedFileRecorded ==
    /\ \A pm \in ManifestsOfPush : \A e \in Range(pm[2]) :
            ~Skipped(Append(pm[1], e.name))
    /\ \A c \in puts : c.kind = "file" => ~Skipped(c.path)

(* C6: after every step of a push, no manifest (built or being filled) has *)
(* an entry for a regular file that is excluded by name or has size 0, and *)
(* no put_file call was made for such a file.                              *)
C6_SkippedFilesNeverRecordedNorPut ==
    [][pc = "upload" => NoSkippedFileRecorded']_vars

C6_Witness ==
    /\ pc = "idle" /\ argv.cmd = "push" /\ exit = "ok" /\ edited = {}
    /\ puts # {}
    /\ \E p \in DOMAIN fs :
        fs[p].kind = "file" /\ Last(p) \in local_exclusions /\ Len(fs[p].data) > 0
    /\ \E p \in DOMAIN fs :
        fs[p].kind = "file" /\ Last(p) \notin local_exclusions /\ Len(fs[p].data) = 0

DirsRecorded ==
    \A b \in built : \A pm \in ManifestsOfPush :
        (b.path # <<>> /\ pm[1] = Parent(b.path)) =>
            \E e \in Range(pm[2]) :
                e.name = Last(b.path) /\ e.hash = b.id /\ e.size = 0

(* C7, as claimed: during a push, every directory whose manifest was built *)
(* is an entry (name, its identifier, 0) of its parent's manifest.         *)
C7_Original == pc = "upload" => DirsRecorded

(* C7 for identifiers of at least one digit: then no directory is left out *)
C7_HoldsFromOneDigit == (pc = "upload" /\ manifest_hash_digits >= 1) => DirsRecorded

(* a read, a directory read or a put_file call failed in this push *)
PushFailed == argv.cmd = "push" /\ failed \in {"listdir", "read", "put_file"}

(* C8: once a file read, a directory read or a put_file call fails in a    *)
(* push, the process has ended without printing a snapshot identifier, no  *)
(* put_file of the root manifest returned, every put_file that returned    *)
(* before left its object in the store, and nothing is put afterwards.     *)
C8_PushAbortsOnFailure ==
    /\ [](PushFailed =>
            /\ pc = "idle" /\ exit = "crash" /\ printed = <<>>
            /\ \A c \in puts : ~c.failed => c.id \in DOMAIN store
            /\ \A c \in puts : (c.kind = "manifest" /\ c.path = <<>>) => c.failed
            /\ Cardinality({c \in puts : c.failed}) <= 1)
    /\ [][(PushFailed /\ runs' = runs) =>
            (puts' = puts /\ store' = store /\ printed' = printed)]_vars
    /\ [][(pc = "upload" /\ failed' # "") =>
            (\A k \in DOMAIN store : k \in DOMAIN store') /\ prev' = prev]_vars

C8_Witness ==
    /\ PushFailed /\ failed = "put_file"
    /\ \E c \in puts : c.kind = "file" /\ ~c.failed
    /\ \E c \in puts : c.kind = "manifest" /\ ~c.failed
    /\ \E c \in puts : c.failed /\ c.id \notin DOMAIN store

(* get_file, or the decoding of what it returned, failed in a list or get *)
ReadFailed == argv.cmd \in {"list", "get"} /\ failed # ""

(* C9: once get_file (or decoding its result) fails in a list or get, the  *)
(* process has ended; the failing step lists and writes nothing, nothing   *)
(* is listed, fetched or written afterwards, and the files written before  *)
(* stay as they were written.                                              *)
C9_ReadAbortsOnFailure ==
    /\ [](ReadFailed => (pc = "idle" /\ exit = "crash" /\ wrote \subseteq DOMAIN dl))
    /\ [][(argv.cmd \in {"list", "get"} /\ failed' # "" /\ runs' = runs) =>
            (listed' = listed /\ wrote' = wrote /\ dl' = dl /\ dldirs' = dldirs)]_vars
    /\ [][(ReadFailed /\ runs' = runs) => gets' = gets]_vars

C9_Witness ==
    /\ ReadFailed /\ argv.cmd = "get" /\ exit = "crash"
    /\ prev.done /\ argv.id = prev.root /\ edited = {} /\ ~prev.clash
    /\ wrote # {}
    /\ \E p \in RecordedFiles \ wrote : \A g \in gets : g.path # p
    /\ \E g \in gets : Len(g.path) = 1 /\ g.id \in {b.id : b \in prev.built}

(* a command was invoked with a configuration or precondition failure *)
ConfigFailure ==
    /\ runs >= 1
    /\ argv.cmd \in {"push", "list", "get"}
    /\ \/ cfg.service = ""
       \/ cfg.bucket = "missing"
       \/ argv.cmd = "push" /\ (cfg.local_path # "ok" \/ cfg.bits > 256)
       \/ argv.cmd = "list" /\ argv.n < 1
       \/ argv.cmd = "get" /\ argv.n < 2

(* C10, as claimed: with a configuration or precondition failure no store  *)
(* operation is called, nothing is written, and the process ends with an   *)
(* alert.                                                                  *)
C10_Original ==
    ConfigFailure =>
        /\ calls = {} /\ puts = {} /\ gets = {} /\ wrote = {}
        /\ pc = "idle" => exit = "alert"

(* C10 for every failure but a missing bucket of the GCS service *)
C10_HoldsButForGcsBucket ==
    (ConfigFailure /\ ~(cfg.service = "GCS" /\ cfg.bucket = "missing")) =>
        /\ calls = {} /\ puts = {} /\ gets = {} /\ wrote = {}
        /\ pc = "idle" /\ exit = "alert"

(* a list of the identifier the last completed push returned has ended, the *)
(* tree being as it was at that push *)
ListedLastPush ==
    /\ pc = "idle" /\ argv.cmd = "list" /\ argv.n = 1
    /\ prev.done /\ argv.id = prev.root /\ edited = {}

(* the record list_snapshot is to print for the file at path p *)
RecordOf(p) ==
    [hash |-> Id(Raw(fs[p].data)), size |-> Len(fs[p].data), path |-> p]

(* one record for each recorded file, none for anything else, none twice *)
ExactlyListed ==
    /\ Range(listed) = {RecordOf(p) : p \in RecordedFiles}
    /\ Len(listed) = Cardinality(RecordedFiles)

(* C11, as claimed: list_snapshot on the identifier a build of T returned  *)
(* emits exactly one record (identifier, size, path) for each recorded     *)
(* file, none for a directory and none twice.  Stated for identifiers of   *)
(* at least one digit and a store that does not fail.                      *)
C11_Original ==
    (ListedLastPush /\ faults = 0 /\ manifest_hash_digits >= 1) =>
        (exit = "ok" /\ ExactlyListed)

(* C11, amended: when no identifier of the build named other content in    *)
(* the store, list_snapshot on the identifier the build returned ends      *)
(* without error unless the store fails, and it emits exactly one record   *)
(* (content identifier, byte length, relative path) for each recorded      *)
(* file, no record for a directory and no record twice.                    *)
C11_ListEmitsRecordedFiles ==
    (ListedLastPush /\ ~prev.clash) =>
        /\ faults = 0 => exit = "ok"
        /\ exit = "ok" => ExactlyListed

C11_Witness ==
    /\ ListedLastPush /\ ~prev.clash /\ exit = "ok"
    /\ Len(listed) >= 3
    /\ \E i \in 1..Len(listed) : Len(listed[i].path) = 2
    /\ \E b \in prev.built : b.path # <<>> /\ \A i \in 1..Len(listed) : listed[i].hash # b.id

(* the process is in list_snapshot or download_snapshot, or about to call it *)
InReader == pc \in {"list", "get", "list_walk", "get_walk"}

(* C12: no step of list_snapshot or download_snapshot calls put_file or    *)
(* changes the store or the existence listing; no step of a push changes   *)
(* the local tree or the download folder; no step of list_snapshot writes  *)
(* to the local filesystem.                                                *)
C12_ReadersAndBuilderKeepTheirFrames ==
    /\ [][InReader =>
            /\ store' = store /\ listing' = listing
            /\ puts' = {} /\ "put_file" \notin calls']_vars
    /\ [][(pc \in {"push", "upload"}) =>
            (fs' = fs /\ dl' = dl /\ dldirs' = dldirs /\ wrote' = {})]_vars
    /\ [][(pc \in {"list", "list_walk"}) =>
            (fs' = fs /\ dl' = dl /\ dldirs' = dldirs /\ wrote' = {})]_vars

C12_Witness ==
    /\ GotLastPush /\ exit = "ok"
    /\ Cardinality(wrote) >= 2
    /\ Cardinality(gets) >= 4
    /\ puts = {} /\ listing = {}
    /\ "put_file" \notin calls

(* the keys of the store that hold a manifest *)
StoredManifests == {k \in DOMAIN store : get_ok(store, k) /\ IsJson(get_file(store, k))}

(* every identifier a manifest of this push references (so far) is a key *)
RefsPresent ==
    \A pm \in ManifestsOfPush : \A e \in Range(pm[2]) : e.hash \in DOMAIN store

(* every manifest in the store has all its referenced identifiers there *)
StoreClosed ==
    \A k \in StoredManifests :
        \A e \in Range(json_loads(get_file(store, k))) : e.hash \in DOMAIN store

(* C13: every identifier recorded in a manifest of a push, built or being  *)
(* filled, is in the store before the manifest is put or skipped; and in   *)
(* every state, during a push and after an abort included, every manifest  *)
(* in the store has all of its referenced identifiers in the store.        *)
C13_ManifestPutAfterItsReferences ==
    /\ argv.cmd = "push" => RefsPresent
    /\ StoreClosed

C13_Witness ==
    /\ PushFailed /\ failed = "put_file"
    /\ \E k \in StoredManifests : Len(json_loads(get_file(store, k))) >= 2
    /\ \E k \in StoredManifests :
         \E e \in Range(json_loads(get_file(store, k))) : e.size = 0
    /\ \E c \in puts : c.failed /\ c.kind = "manifest" /\ c.id \in DOMAIN store

(* no two put_file calls of this push are for the same identifier *)
PutAtMostOnce(kinds) ==
    \A c1, c2 \in puts :
        (c1.kind \in kinds /\ c2.kind \in kinds /\ c1.id = c2.id) => c1.path = c2.path

(* C14, as claimed: within one push, no put_file call is for an identifier *)
(* of the fetched listing, and no identifier is put twice, for file blobs  *)
(* and for manifests alike.  Stated for identifiers long enough that       *)
(* distinct contents have distinct identifiers.                            *)
C14_Original ==
    (InPush /\ manifest_hash_digits >= 2) =>
        /\ \A c \in puts : c.id \notin fetched[1]
        /\ PutAtMostOnce({"file", "manifest"})

(* C14 for file blobs alone: the listing is extended after each file put   *)
C14_HoldsForFileBlobs ==
    InPush =>
        /\ \A c \in puts : c.id \notin fetched[1]
        /\ PutAtMostOnce({"file"})

(* upload_snapshot as a function of the tree: the identifier returned for  *)
(* the directory at path (lines 124-167, the store left aside)             *)
RECURSIVE FolderHash(_, _)
FolderHash(tree, path) ==
    LET items == listdir(tree, path)
        files == {n \in items : /\ tree[Append(path, n)].kind = "file"
                                /\ IsUploaded(n, tree[Append(path, n)])}
        folders == {n \in items : /\ tree[Append(path, n)].kind = "dir"
                                  /\ Truthy(FolderHash(tree, Append(path, n)))}
        manifest ==
            {Entry(n, Id(Raw(tree[Append(path, n)].data)),
                   Len(tree[Append(path, n)].data)) : n \in files}
            \cup {Entry(n, FolderHash(tree, Append(path, n)), 0) : n \in folders}
    IN  Id(json_dumps(SortInto(manifest, <<>>)))

(* a push of the tree as it is now has completed *)
PushDone ==
    pc = "idle" /\ argv.cmd = "push" /\ exit = "ok" /\ edited = {}

(* the order of paths when every directory is enumerated in name order *)
PathBefore(p, q) ==
    \E i \in 1..Min(Len(p), Len(q)) :
        /\ SubSeq(p, 1, i - 1) = SubSeq(q, 1, i - 1)
        /\ NameRank(p[i]) < NameRank(q[i])

(* the recorded files whose content has identifier id *)
FilesWithId(id) == {p \in RecordedFiles : Id(Raw(fs[p].data)) = id}

(* the object a build in name order stores for a file blob it puts *)
ObjectInNameOrder(id) ==
    LET p == CHOOSE x \in FilesWithId(id) :
                 \A y \in FilesWithId(id) \ {x} : PathBefore(x, y)
    IN  StoredObject(Raw(fs[p].data), content_types(splitext(Last(p))),
                     splitext(Last(p)) \in gzip_types)

(* the identifiers a build of the tree computes *)
IdsOfTree ==
    {Id(Raw(fs[p].data)) : p \in RecordedFiles}
    \cup {FolderHash(fs, p) : p \in {q \in DOMAIN fs : fs[q].kind = "dir"}}

(* C15, as claimed: whatever the enumeration order, a completed build ends *)
(* with the root identifier, the set of stored identifiers and, for every  *)
(* blob it put, the content-type and compression flag that the build in    *)
(* name order ends with.  Stated for identifiers long enough that distinct *)
(* contents have distinct identifiers.                                     *)
C15_Original ==
    (PushDone /\ manifest_hash_digits >= 2) =>
        /\ printed = <<FolderHash(fs, <<>>)>>
        /\ DOMAIN store = fetched[1] \cup IdsOfTree
        /\ \A c \in puts : c.kind = "file" => store[c.id] = ObjectInNameOrder(c.id)

(* C15 without the stored attributes: the root identifier and the set of   *)
(* stored identifiers do not depend on the enumeration order               *)
C15_HoldsForIdentifiers ==
    PushDone =>
        /\ printed = <<FolderHash(fs, <<>>)>>
        /\ DOMAIN store = fetched[1] \cup IdsOfTree

(* a build in name order is among the builds: the outcome C15 compares to *)
C15_NameOrderOutcome ==
    /\ PushDone /\ manifest_hash_digits >= 2
    /\ fs = TreeA /\ fetched[1] = {}
    /\ \A c \in puts : c.kind = "file" => store[c.id] = ObjectInNameOrder(c.id)

(* a get of the identifier the last completed push returned is running or  *)
(* has ended, the tree being as it was at that push *)
GettingLastPush ==
    /\ argv.cmd = "get" /\ argv.n = 2
    /\ prev.done /\ argv.id = prev.root /\ edited = {}

(* the file at p under download_path holds the bytes of the file of T *)
Restored(p) ==
    /\ p \in DOMAIN dl /\ dl[p] = Raw(fs[p].data)
    /\ Prefixes(p) \subseteq dldirs

(* C16: with identifiers that distinct contents do not share, a download   *)
(* of the snapshot a build of T returned writes every file it writes with  *)
(* the bytes the file had at the build, under its parent folders, and once *)
(* it has completed it has written every recorded file, over whatever was  *)
(* at that path before, whether the blob is stored compressed or not.      *)
C16_DownloadRestoresBytes ==
    (GettingLastPush /\ manifest_hash_digits >= 2) =>
        /\ \A p \in wrote : p \in RecordedFiles /\ Restored(p)
        /\ (pc = "idle" /\ exit = "ok") => \A p \in RecordedFiles : p \in wrote

C16_Witness ==
    /\ GettingLastPush /\ manifest_hash_digits >= 2 /\ pc = "idle" /\ exit = "ok"
    /\ <<"old.bin">> \in DOMAIN dl
    /\ <<"e", "x.txt">> \in wrote
    /\ \E p, q \in wrote :
        /\ fs[p].data = fs[q].data
        /\ splitext(Last(p)) \in gzip_types /\ splitext(Last(q)) \notin gzip_types
    /\ \E p, q \in wrote : store[Id(dl[p])].enc = "gzip" /\ store[Id(dl[q])].enc = ""
    /\ \E p \in wrote : Parent(p) # <<>> /\ Parent(p) # <<"e">>

(* a push is running, or has completed, after a push of the same tree died *)
Retrying ==
    /\ argv.cmd = "push" /\ aborted.yes
    /\ pc = "upload" \/ (pc = "idle" /\ exit = "ok")

(* C17: a push run again on the unchanged tree after a push that died puts *)
(* none of the identifiers whose put_file had returned before, and when it *)
(* completes it returns the root identifier of the tree and leaves in the  *)
(* store the identifiers that were there before the first attempt and the  *)
(* identifiers of the tree, as an uninterrupted push does.                 *)
C17_RetryAfterAbort ==
    Retrying =>
        /\ \A c \in puts : c.id \notin aborted.ids
        /\ (pc = "idle") =>
            /\ printed = <<FolderHash(fs, <<>>)>>
            /\ DOMAIN store = aborted.before \cup IdsOfTree

C17_Witness ==
    /\ Retrying /\ pc = "idle" /\ manifest_hash_digits >= 2
    /\ \E c \in puts : c.kind = "manifest" /\ c.path # <<>>
    /\ \E b \in built : b.path # <<>> /\ b.id \in aborted.ids
    /\ \E p \in RecordedFiles : Id(Raw(fs[p].data)) \in aborted.ids
    /\ Cardinality(DOMAIN store) > Cardinality(aborted.ids) + Cardinality(puts)

(* ceil(bits / 4) *)
Ceil4(bits) == 0 - ((0 - bits) \div 4)

(* the configuration passed the checks of push: the push is past line 287 *)
PushPassedChecks == argv.cmd = "push" /\ pc \in {"push", "upload"}

(* the identifiers computed so far in this push *)
IdsComputed ==
    {b.id : b \in built} \cup {c.id : c \in puts}
    \cup UNION {{e.hash : e \in Range(pm[2])} : pm \in ManifestsOfPush}

DigitsAsSpecified ==
    /\ manifest_hash_digits = Ceil4(cfg.bits)
    /\ manifest_hash_digits \in 1..DigestDigits
    /\ \A id \in IdsComputed : id.n = manifest_hash_digits

(* C18, as claimed: for every manifest_hash_bits that passes the check of  *)
(* push, the number of digits is ceil(bits/4), lies in 1..64, and every    *)
(* identifier computed in the push has that many digits.                   *)
C18_Original == PushPassedChecks => DigitsAsSpecified

(* C18 for the values from 1 up: there the check of push is enough *)
C18_HoldsFromOneBit == (PushPassedChecks /\ cfg.bits >= 1) => DigitsAsSpecified

(* the entry e of the manifest of the directory at path stands for what is *)
(* at that name in the tree: size 0 for a subdirectory, with the           *)
(* identifier of its manifest; the byte length, positive, for a regular    *)
(* file, with the identifier of its content                                *)
EntryStandsFor(path, e) ==
    LET p == Append(path, e.name)
    IN  /\ p \in DOMAIN fs
        /\ e.size = 0 <=> fs[p].kind = "dir"
        /\ e.size > 0 <=> fs[p].kind = "file"
        /\ fs[p].kind = "dir" =>
            /\ e.hash = FolderHash(fs, p)
            /\ \E b \in built : b.path = p /\ b.id = e.hash
        /\ fs[p].kind = "file" =>
            /\ e.hash = Id(Raw(fs[p].data))
            /\ e.size = Len(fs[p].data)

EntriesStandForTree ==
    (pc = "upload" \/ PushDone) =>
        \A pm \in ManifestsOfPush : \A e \in Range(pm[2]) : EntryStandsFor(pm[1], e)

(* a list or get of the identifier the last completed push returned is     *)
(* running or has ended, the tree being as it was at that push             *)
ReadingLastPush ==
    /\ argv.cmd \in {"list", "get"} /\ argv.n >= 1
    /\ prev.done /\ argv.id = prev.root /\ edited = {}

(* what the reader fetched as a manifest is the manifest of a directory,   *)
(* what it fetched as a blob is the content of a file                      *)
ReaderKindsRight ==
    \A g \in gets :
        /\ g.path \in DOMAIN fs
        /\ g.id \in DOMAIN store /\ get_ok(store, g.id)
        /\ fs[g.path].kind = "dir" => IsJson(get_file(store, g.id))
        /\ fs[g.path].kind = "file" => get_file(store, g.id) = Raw(fs[g.path].data)
        /\ fs[g.path].kind # "link"

(* C19, as claimed: in every manifest of a build an entry has size 0       *)
(* exactly when it stands for a subdirectory (with the identifier of its   *)
(* manifest) and a positive size exactly when it stands for a regular file *)
(* (with the identifier and byte length of its content); so a reader of    *)
(* the snapshot never takes a blob for a manifest or a manifest for a      *)
(* blob.  Stated for identifiers of at least one digit.                    *)
C19_Original ==
    /\ EntriesStandForTree
    /\ (ReadingLastPush /\ manifest_hash_digits >= 1) => ReaderKindsRight

(* C19, amended: the entries are as claimed in every build; the reader of  *)
(* the snapshot takes no blob for a manifest and no manifest for a blob    *)
(* when no identifier of the build named other content in the store.       *)
C19_SizeZeroIffSubfolder ==
    /\ EntriesStandForTree
    /\ (ReadingLastPush /\ ~prev.clash) => ReaderKindsRight

C19_Witness ==
    /\ ReadingLastPush /\ ~prev.clash /\ pc = "idle" /\ exit = "ok"
    /\ argv.cmd = "get"
    /\ \E g \in gets : fs[g.path].kind = "dir" /\ Len(g.path) = 2
    /\ \E g \in gets : fs[g.path].kind = "file" /\ Len(g.path) = 2
    /\ \E b \in prev.built :
        /\ \E e \in Range(b.json.m) : e.size = 0
        /\ \E e \in Range(b.json.m) : e.size > 0

(* a step of the running list_snapshot or download_snapshot *)
ReaderStep == ReadRoot \/ ReadSubfolder \/ ListFile \/ DownloadFile \/ ReadReturn

(* the configuration the program ships with, a service and a path set, *)
(* and a download folder that is empty                                  *)
LiveInit == Init /\ cfg = Good("S3", 80) /\ dl = NoDownload

(* the process, once started, keeps running until it ends *)
LiveSpec == LiveInit /\ [][Next]_vars /\ WF_vars(ReaderStep)

(* the next step of the reader is a call of get_file *)
AtGetFile ==
    \/ pc \in {"list", "get"}
    \/ pc \in {"list_walk", "get_walk"} /\ HasCur /\ (Cur.size = 0 \/ pc = "get_walk")

(* the frames of the traversal go down one branch of the tree: each is the *)
(* manifest of a directory below the one before, and no manifest is on the *)
(* branch twice                                                            *)
BranchOfTree ==
    \A i, j \in 1..Len(stack) :
        /\ stack[i].path \in DOMAIN fs /\ fs[stack[i].path].kind = "dir"
        /\ Id(json_dumps(stack[i].entries)) = FolderHash(fs, stack[i].path)
        /\ i < j => /\ Len(stack[i].path) < Len(stack[j].path)
                    /\ IsPrefix(stack[i].path, stack[j].path)
                    /\ stack[i].entries # stack[j].entries

(* C20: with identifiers that distinct contents do not share, a list or    *)
(* get of the identifier a build returned comes to its end; every call of  *)
(* get_file is for a place of the tree not fetched before in the run, and  *)
(* the manifests being walked are those of one branch of the tree, none of *)
(* them twice.                                                             *)
C20_ReadersTerminate ==
    /\ (ReadingLastPush /\ manifest_hash_digits >= 2 /\ InReader) ~> (pc = "idle")
    /\ [][(ReadingLastPush /\ manifest_hash_digits >= 2 /\ AtGetFile) =>
            (gets' # gets /\ \A g \in gets' : g.path \in DOMAIN fs)]_vars
    /\ []((ReadingLastPush /\ manifest_hash_digits >= 2 /\ InReader) => BranchOfTree)

C20_Witness ==
    /\ ReadingLastPush /\ manifest_hash_digits >= 2
    /\ pc = "get_walk" /\ Len(stack) = 3
    /\ Cardinality(gets) >= 3
    /\ \E k \in DOMAIN store : \E g1, g2 \in gets : g1.id = k /\ g2.id = k /\ g1 # g2

===========================================================================
